---- MODULE Spec2Model ----
(***************************************************************************)
(* Model of msh/utils/quant.py: int8 block quantization of module weights  *)
(* with on-demand dequantization around each module invocation.            *)
(*                                                                         *)
(* Tensors are records [shape, data, den, dtype]: data is the row-major    *)
(* flat sequence of integer numerators over the common denominator den,    *)
(* so float arithmetic is exact rational arithmetic.                       *)
(* Attribute names are sequences of tokens: name + '_q8' is                *)
(* Append(name, "q8").                                                     *)
(* min_size_mb is represented by the integer min_size_mb * 1e6, so that    *)
(* numel * itemsize / 1e6 < min_size_mb is numel * itemsize < that integer.*)
(***************************************************************************)
EXTENDS Integers, Sequences, FiniteSets, TLC

\* ---------------------------------------------------------------- bounds
MaxRows == 2
MaxFreeCols == 3
MaxCols == 5
MaxVal == 2
MaxBlock == 3
MaxDepth == 3
MaxRounds == 1

\* ------------------------------------------------------ program constants
mx_val == 127
mn_val == -128
DefaultBlockSize == 256

VARIABLES
    attrs,                \* module -> ordered dict of parameters (name, value)
    _params_registry,     \* WeakKeyDictionary: module -> ordered dict name -> handle
    _quantized_registry,  \* WeakSet of orchestrated modules
    forward_pre_hooks,    \* module -> sequence of pre_hook closures (their params list)
    forward_hooks,        \* module -> sequence of post_hook closures (their params list)
    stack,                \* modules whose forward body is executing, outermost first
    last,                 \* outcome of the last API call or invocation event
    extern,               \* modules the caller holds a reference to
    detached,             \* <<parent, child>> entries removed from parent._modules
    alive,                \* modules that have not been destroyed
    qpc, qweight, qblock, qout, qrec   \* harness of the pure quantizer functions

vars == <<attrs, _params_registry, _quantized_registry, forward_pre_hooks,
          forward_hooks, stack, last, extern, detached, alive, qpc, qweight, qblock, qout, qrec>>

lifeVars == <<attrs, _params_registry, _quantized_registry, forward_pre_hooks,
              forward_hooks, stack, last, extern, detached, alive>>

ownVars == <<extern, detached, alive>>

quantVars == <<qpc, qweight, qblock, qout, qrec>>

\* ------------------------------------------------------------- tensors
NoTensor == [shape |-> <<>>, data |-> <<>>, den |-> 0, dtype |-> "none", device |-> "none"]

Tensor(shape, data, den, dtype) ==
    [shape |-> shape, data |-> data, den |-> den, dtype |-> dtype, device |-> "cpu"]

\* the tensor t allocated on device dev
On(t, dev) == [t EXCEPT !.device = dev]

RECURSIVE Prod(_)
Prod(s) == IF s = <<>> THEN 1 ELSE Head(s) * Prod(Tail(s))

Numel(shape) == Prod(shape)

ItemSize(dtype) == IF dtype = "int8" THEN 1 ELSE 4

CeilDiv(a, b) == (a + b - 1) \div b

SetMin(S) == CHOOSE x \in S : \A y \in S : x <= y

SetMax(S) == CHOOSE x \in S : \A y \in S : x >= y

\* element (i, j) of a 2-D tensor
At(t, i, j) == t.data[(i - 1) * t.shape[2] + j]

RowValues(t, i) == {At(t, i, j) : j \in 1..t.shape[2]}

\* torch.round of the rational n / d (d > 0): nearest integer, ties to even
Round(n, d) ==
    LET f == (2 * n + d) \div (2 * d)
        tie == (2 * n + d) % (2 * d) = 0
    IN IF tie /\ f % 2 /= 0 THEN f - 1 ELSE f

Clamp(x, lo, hi) == IF x < lo THEN lo ELSE IF x > hi THEN hi ELSE x

QuantError(e) == [err |-> e, q8 |-> NoTensor, scale |-> NoTensor, mean |-> NoTensor]

\* line 14: weight_tmp.view(-1)[:weight.numel()] = weight.view(-1) needs the
\* slice of the block_size x block_size buffer to hold weight.numel() elements
PadCopyFits(numel, block_size) == numel <= block_size * block_size

\* line 17: aminmax(dim=1) needs a dimension 1
HasDim1(shape) == Len(shape) >= 2

\* scale numerator of row i, over the denominator (mx_val - mn_val) * den
ScaleNum(weight, i) == SetMax(RowValues(weight, i)) - SetMin(RowValues(weight, i))

MeanNum_mut(weight, i) ==
    IF ScaleNum(weight, i) = 0 THEN 0
    ELSE (mx_val - mn_val) * SetMax(RowValues(weight, i)) - (mx_val + 1) * ScaleNum(weight, i)

\* mean numerator of row i: where(invalid, zero, mx - scale * mx_val)
MeanNum(weight, i) ==
    IF ScaleNum(weight, i) = 0 THEN 0
    ELSE (mx_val - mn_val) * SetMax(RowValues(weight, i)) - mx_val * ScaleNum(weight, i)

\* code of element (i, j): where(invalid, zero, (weight - mean) / scale).round().clamp()
Code(weight, i, j) ==
    IF ScaleNum(weight, i) = 0 THEN 0
    ELSE Clamp(Round((mx_val - mn_val) * At(weight, i, j) - MeanNum(weight, i),
                     ScaleNum(weight, i)), mn_val, mx_val)

_quantize_weight_int8(weight, block_size) ==
    LET numel == Numel(weight.shape)
        blocks == CeilDiv(numel, block_size)
    IN IF numel /= blocks * block_size /\ ~PadCopyFits(numel, block_size)
       THEN QuantError("RuntimeError")
       ELSE IF ~HasDim1(weight.shape) THEN QuantError("IndexError")
       ELSE LET r == weight.shape[1]
                c == weight.shape[2]
                fdtype == IF weight.dtype = "int8" THEN "float32" ELSE weight.dtype
                fden == (mx_val - mn_val) * weight.den
            IN [err |-> "none",
                q8 |-> On(Tensor(<<r, c>>,
                                 [k \in 1..(r * c) |->
                                     Code(weight, ((k - 1) \div c) + 1, ((k - 1) % c) + 1)],
                                 1, "int8"), weight.device),
                scale |-> On(Tensor(<<r, 1>>, [i \in 1..r |-> ScaleNum(weight, i)],
                                    fden, fdtype), weight.device),
                mean |-> On(Tensor(<<r, 1>>, [i \in 1..r |-> MeanNum(weight, i)],
                                   fden, fdtype), weight.device)]

\* addcmul(mean, w, scale, out=w), then view(-1)[:size.numel()].view(size);
\* the error value is the failure of view(size) on too few elements
_unquantize_weight_int8(q8, scale, mean, size) ==
    LET c == q8.shape[2]
        full == [k \in 1..Len(q8.data) |->
                    mean.data[((k - 1) \div c) + 1]
                    + q8.data[k] * scale.data[((k - 1) \div c) + 1]]
    IN IF Len(q8.data) < Numel(size) THEN NoTensor
       ELSE On(Tensor(size, SubSeq(full, 1, Numel(size)), mean.den, mean.dtype), mean.device)


\* ------------------------------------------------- module attribute storage
\* nn.Module._parameters: an insertion-ordered dict, as a sequence of entries
Has(d, n) == \E i \in 1..Len(d) : d[i].name = n

Get(d, n) == d[CHOOSE i \in 1..Len(d) : d[i].name = n].value

Put(d, n, v) ==
    IF Has(d, n)
    THEN [i \in 1..Len(d) |-> IF d[i].name = n THEN [name |-> n, value |-> v] ELSE d[i]]
    ELSE Append(d, [name |-> n, value |-> v])

Del(d, n) == SelectSeq(d, LAMBDA e : e.name /= n)

Values(d) == [i \in 1..Len(d) |-> d[i].value]

Range(s) == {s[i] : i \in 1..Len(s)}

\* ------------------------------------------------------------ module tree
Mods == {"A", "B", "C"}

\* the tree the modules are built with: A holds B and C, B holds C (C is shared)
InitialModules(m) ==
    IF m = "A" THEN <<"B", "C">> ELSE IF m = "B" THEN <<"C">> ELSE <<>>

\* nn.Module._modules: the children not removed since
_modules(m) == SelectSeq(InitialModules(m), LAMBDA c : <<m, c>> \notin detached)

RECURSIVE Walk(_, _)
Walk(todo, memo) ==
    IF todo = <<>> THEN memo
    ELSE IF Head(todo) \in Range(memo) THEN Walk(Tail(todo), memo)
    ELSE Walk(_modules(Head(todo)) \o Tail(todo), Append(memo, Head(todo)))

\* module.modules(): the module and its descendants, each once
modules(m) == Walk(<<m>>, <<>>)

\* the modules reachable through owning references: the caller's references
\* and the _modules of the modules so reached
Owned == UNION {Range(modules(m)) : m \in extern}

KeptAlive_mut(registry) == DOMAIN registry

\* the modules an entry of the registries, a handle or a hook closure keeps
\* alive: none, they hold WeakKeyDictionary / WeakSet / ref references only
KeptAlive(registry) == {}

\* the entries a WeakKeyDictionary keeps once only the modules in live remain
Prune(registry, live) == [m \in DOMAIN registry \cap live |-> registry[m]]

\* the parameters the modules are built with
InitialParams(m) ==
    IF m = "A" THEN
        <<[name |-> <<"w">>, value |-> Tensor(<<2, 3>>, <<0, 1, 2, 2, 2, 2>>, 1, "float32")]>>
    ELSE IF m = "B" THEN
        <<[name |-> <<"w">>, value |-> Tensor(<<1, 6>>, <<0, 1, 2, 3, 4, 5>>, 1, "float32")],
          [name |-> <<"b">>, value |-> Tensor(<<1>>, <<1>>, 1, "float32")]>>
    ELSE
        <<[name |-> <<"w">>,
           value |-> On(Tensor(<<2, 3>>, <<0, 0, 0, 1, 3, 2>>, 1, "float32"), "cuda")]>>

\* arguments of quantize_module_int8_: min_size_mb * 1e6, and block_size
MinSizes == {4, 6, 24, 25}

BlockSizes == {3, 256}

\* --------------------------------------------------------- _QuantizedParam
Handle(module, name, size) == [module |-> module, name |-> name, size |-> size]

Outcome(at, e) == [attrs |-> at, err |-> e]

Gone_mut(param) == FALSE

\* the module property: the weak reference is dead
Gone(param) == param.module \notin alive

quantize_(at, param, block_size) ==
    LET m == param.module
        n == param.name
    IN IF Gone(param) THEN Outcome(at, "RuntimeError")
       ELSE IF ~Has(at[m], n) THEN Outcome(at, "AttributeError")
       ELSE LET r == _quantize_weight_int8(Get(at[m], n), block_size)
            IN IF r.err /= "none" THEN Outcome(at, r.err)
               ELSE Outcome([at EXCEPT ![m] =
                                Put(Put(Put(@, Append(n, "q8"), r.q8),
                                        Append(n, "scale"), r.scale),
                                    Append(n, "mean"), r.mean)], "none")

HasTriple(d, n) ==
    /\ Has(d, Append(n, "q8"))
    /\ Has(d, Append(n, "scale"))
    /\ Has(d, Append(n, "mean"))

unquantized_value(at, param) ==
    LET d == at[param.module]
        n == param.name
    IN _unquantize_weight_int8(Get(d, Append(n, "q8")), Get(d, Append(n, "scale")),
                               Get(d, Append(n, "mean")), param.size)

IsMaterialized_mut(at, param) == FALSE

\* line 87: hasattr(self.module, self.name)
IsMaterialized(at, param) == Has(at[param.module], param.name)

unquantize_(at, param) ==
    LET m == param.module
        n == param.name
    IN IF Gone(param) THEN Outcome(at, "RuntimeError")
       ELSE IF IsMaterialized(at, param) THEN Outcome(at, "none")
       ELSE IF ~HasTriple(at[m], n) THEN Outcome(at, "AttributeError")
       ELSE IF unquantized_value(at, param) = NoTensor THEN Outcome(at, "RuntimeError")
       ELSE Outcome([at EXCEPT ![m] = Put(@, n, unquantized_value(at, param))], "none")

flush_unquantized__mut(at, param) ==
    IF Gone(param) THEN Outcome(at, "RuntimeError")
    ELSE Outcome([at EXCEPT ![param.module] = Del(@, param.name)], "none")

flush_unquantized_(at, param) ==
    LET m == param.module
        n == param.name
    IN IF Gone(param) THEN Outcome(at, "RuntimeError")
       ELSE IF ~Has(at[m], n) THEN Outcome(at, "AttributeError")
       ELSE Outcome([at EXCEPT ![m] = Del(@, n)], "none")

\* ------------------------------------------------------------------ hooks
RECURSIVE pre_hook(_, _)
pre_hook(at, params) ==
    IF params = <<>> THEN Outcome(at, "none")
    ELSE LET r == unquantize_(at, Head(params))
         IN IF r.err /= "none" THEN r ELSE pre_hook(r.attrs, Tail(params))

RECURSIVE post_hook(_, _)
post_hook(at, params) ==
    IF params = <<>> THEN Outcome(at, "none")
    ELSE LET r == flush_unquantized_(at, Head(params))
         IN IF r.err /= "none" THEN r ELSE post_hook(r.attrs, Tail(params))

\* Module.__call__ runs the registered hooks in registration order; an error
\* in one hook ends the invocation
RECURSIVE RunPreHooks(_, _)
RunPreHooks(at, hooks) ==
    IF hooks = <<>> THEN Outcome(at, "none")
    ELSE LET r == pre_hook(at, Head(hooks))
         IN IF r.err /= "none" THEN r ELSE RunPreHooks(r.attrs, Tail(hooks))

RECURSIVE RunPostHooks(_, _)
RunPostHooks(at, hooks) ==
    IF hooks = <<>> THEN Outcome(at, "none")
    ELSE LET r == post_hook(at, Head(hooks))
         IN IF r.err /= "none" THEN r ELSE RunPostHooks(r.attrs, Tail(hooks))

\* ----------------------------------------------------------- orchestrator
SizeBytes(weight) == Numel(weight.shape) * ItemSize(weight.dtype)

\* line 126: size < min_size_mb
BelowMin(weight, min_size_mb) == SizeBytes(weight) < min_size_mb

AlreadyOrchestrated_mut(module, registry) == FALSE

\* line 101: module in _quantized_registry
AlreadyOrchestrated(module, registry) == module \in registry

\* the loop of lines 124-133 over the snapshot plist of the child's parameters
RECURSIVE VisitParams(_, _, _, _)
VisitParams(st, child, plist, min_size_mb) ==
    IF plist = <<>> \/ st.err /= "none" THEN st
    ELSE LET name == Head(plist).name
             weight == Head(plist).value
             param == Handle(child, name, weight.shape)
             q == quantize_(st.attrs, param, DefaultBlockSize)
             f == flush_unquantized_(q.attrs, param)
         IN IF BelowMin(weight, min_size_mb)
            THEN VisitParams(st, child, Tail(plist), min_size_mb)
            ELSE IF q.err /= "none" THEN [st EXCEPT !.err = q.err]
            ELSE IF f.err /= "none" THEN [st EXCEPT !.attrs = q.attrs, !.err = f.err]
            ELSE VisitParams([attrs |-> f.attrs,
                              params |-> Append(st.params, param),
                              child_params |-> Put(st.child_params, name, param),
                              err |-> "none"],
                             child, Tail(plist), min_size_mb)

\* the loop of lines 114-134 over module.modules()
RECURSIVE VisitModules(_, _, _)
VisitModules(st, todo, min_size_mb) ==
    IF todo = <<>> \/ st.err /= "none" THEN st
    ELSE LET child == Head(todo)
             r == VisitParams([attrs |-> st.attrs, params |-> st.params,
                               child_params |-> <<>>, err |-> "none"],
                              child, st.attrs[child], min_size_mb)
         IN IF child \in st.seen THEN VisitModules(st, Tail(todo), min_size_mb)
            ELSE IF child \in DOMAIN st.reg
            THEN VisitModules([st EXCEPT !.params = @ \o Values(st.reg[child])],
                              Tail(todo), min_size_mb)
            ELSE VisitModules([attrs |-> r.attrs,
                               reg |-> IF r.err = "none"
                                       THEN (child :> r.child_params) @@ st.reg
                                       ELSE st.reg,
                               params |-> r.params,
                               seen |-> st.seen \cup {child},
                               err |-> r.err],
                              Tail(todo), min_size_mb)

Traversal(module, min_size_mb) ==
    VisitModules([attrs |-> attrs, reg |-> _params_registry, params |-> <<>>,
                  seen |-> {}, err |-> "none"],
                 modules(module), min_size_mb)

NoInfo == [size |-> <<>>, dtype |-> "none", device |-> "none"]

Event(fn, module, min_size_mb, block_size, ret) ==
    [fn |-> fn, module |-> module, min_size_mb |-> min_size_mb,
     block_size |-> block_size, ret |-> ret, name |-> <<>>, info |-> NoInfo]

\* called at set-up time, between invocations (stack = <<>>)
quantize_module_int8_(module, min_size_mb, block_size) ==
    LET r == Traversal(module, min_size_mb)
    IN /\ stack = <<>>
       /\ module \in alive
       /\ UNCHANGED <<stack, ownVars, quantVars>>
       /\ IF AlreadyOrchestrated(module, _quantized_registry)
          THEN /\ last' = Event("quantize_module_int8_", module, min_size_mb, block_size, "None")
               /\ UNCHANGED <<attrs, _params_registry, _quantized_registry,
                              forward_pre_hooks, forward_hooks>>
          ELSE /\ attrs' = r.attrs
               /\ _params_registry' = r.reg
               /\ IF r.err /= "none"
                  THEN /\ last' = Event("quantize_module_int8_", module, min_size_mb,
                                        block_size, r.err)
                       /\ UNCHANGED <<_quantized_registry, forward_pre_hooks, forward_hooks>>
                  ELSE /\ forward_pre_hooks' =
                              [forward_pre_hooks EXCEPT ![module] = Append(@, r.params)]
                       /\ forward_hooks' =
                              [forward_hooks EXCEPT ![module] = Append(@, r.params)]
                       /\ _quantized_registry' = _quantized_registry \cup {module}
                       /\ last' = Event("quantize_module_int8_", module, min_size_mb,
                                        block_size, module)

\* -------------------------------------------------------------- invocation
\* module(...) is called, from the top level or from the body on top of the
\* stack: the pre-hooks run, then forward starts
Call(m) ==
    LET r == RunPreHooks(attrs, forward_pre_hooks[m])
    IN /\ Len(stack) < MaxDepth
       /\ m \in alive
       /\ attrs' = r.attrs
       /\ stack' = IF r.err = "none" THEN Append(stack, m) ELSE stack
       /\ last' = Event("__call__", m, 0, 0, IF r.err = "none" THEN "forward" ELSE r.err)
       /\ UNCHANGED <<_params_registry, _quantized_registry, forward_pre_hooks,
                      forward_hooks, ownVars, quantVars>>

\* the innermost forward returns normally: the forward hooks run
Return ==
    LET m == stack[Len(stack)]
        r == RunPostHooks(attrs, forward_hooks[m])
    IN /\ stack /= <<>>
       /\ attrs' = r.attrs
       /\ stack' = SubSeq(stack, 1, Len(stack) - 1)
       /\ last' = Event("return", m, 0, 0, IF r.err = "none" THEN "output" ELSE r.err)
       /\ UNCHANGED <<_params_registry, _quantized_registry, forward_pre_hooks,
                      forward_hooks, ownVars, quantVars>>

\* the innermost forward raises: register_forward_hook(post_hook) is without
\* always_call, so the forward hooks are skipped
BodyRaise ==
    /\ stack /= <<>>
    /\ stack' = SubSeq(stack, 1, Len(stack) - 1)
    /\ last' = Event("return", stack[Len(stack)], 0, 0, "raised")
    /\ UNCHANGED <<attrs, _params_registry, _quantized_registry, forward_pre_hooks,
                   forward_hooks, ownVars, quantVars>>

\* ------------------------------------------------------------ module lifetime
\* the modules of live left once the owning references are ext and the tree
\* is cut at det: those still owned, and those the quantizer keeps alive
Survivors ==
    alive \cap (Owned' \cup KeptAlive(_params_registry))

\* the destruction of the modules that lost their last owning reference:
\* the weak registries drop them, their attributes and hooks go with them
Destroy ==
    /\ alive' = Survivors
    /\ Range(stack) \subseteq alive'
    /\ attrs' = [m \in Mods |-> IF m \in alive' THEN attrs[m] ELSE <<>>]
    /\ forward_pre_hooks' = [m \in Mods |-> IF m \in alive' THEN forward_pre_hooks[m] ELSE <<>>]
    /\ forward_hooks' = [m \in Mods |-> IF m \in alive' THEN forward_hooks[m] ELSE <<>>]
    /\ _params_registry' = Prune(_params_registry, alive')
    /\ _quantized_registry' = _quantized_registry \cap alive'

\* del parent.child: the child leaves parent._modules
Detach(parent, child) ==
    /\ parent \in alive
    /\ child \in Range(_modules(parent))
    /\ detached' = detached \cup {<<parent, child>>}
    /\ extern' = extern
    /\ Destroy
    /\ last' = Event("detach", child, 0, 0, parent)
    /\ UNCHANGED <<stack, quantVars>>

\* the caller drops its reference to m
Release(m) ==
    /\ m \in extern
    /\ extern' = extern \ {m}
    /\ detached' = detached
    /\ Destroy
    /\ last' = Event("release", m, 0, 0, "none")
    /\ UNCHANGED <<stack, quantVars>>

\* ------------------------------------------------------------ introspection
Info(size, dtype, device) == [size |-> size, dtype |-> dtype, device |-> device]

Query(module, name, ret, info) ==
    [Event("get_size_dtype_device", module, 0, 0, ret) EXCEPT !.name = name, !.info = info]

\* the mean / scale / q8 properties: getattr(self.module, self.name + suffix)
Property(at, param, suffix) ==
    IF Gone(param) THEN [err |-> "RuntimeError", value |-> NoTensor]
    ELSE IF ~Has(at[param.module], Append(param.name, suffix))
    THEN [err |-> "AttributeError", value |-> NoTensor]
    ELSE [err |-> "none", value |-> Get(at[param.module], Append(param.name, suffix))]

mean(at, param) == Property(at, param, "mean")

scale(at, param) == Property(at, param, "scale")

q8(at, param) == Property(at, param, "q8")

QueryNames == {<<"w">>, <<"b">>, <<"w", "q8">>}

get_size_dtype_device(module, name) ==
    LET tensor == Get(attrs[module], name)
        param == Get(_params_registry[module], name)
        mn == mean(attrs, param)
    IN /\ module \in alive
       /\ last' =
            IF Has(attrs[module], name)
            THEN Query(module, name, "ok", Info(tensor.shape, tensor.dtype, tensor.device))
            ELSE IF module \in DOMAIN _params_registry /\ Has(_params_registry[module], name)
            THEN IF mn.err /= "none" THEN Query(module, name, mn.err, NoInfo)
                 ELSE Query(module, name, "ok",
                            Info(param.size, mn.value.dtype, mn.value.device))
            ELSE Query(module, name, "AttributeError", NoInfo)
       /\ UNCHANGED <<attrs, _params_registry, _quantized_registry, forward_pre_hooks,
                      forward_hooks, stack, ownVars, quantVars>>

\* ------------------------------------------------------------ quantizer harness
Weights2D ==
    {Tensor(<<r, c>>, d, 1, "float32") :
        <<r, c, d>> \in UNION {UNION {{<<r, c, d>> : d \in [1..(r * c) -> 0..MaxVal]} :
                                          c \in 1..MaxFreeCols} : r \in 1..MaxRows}}

Ramp(n) == [k \in 1..n |-> (k - 1) % (MaxVal + 1)]

Ramp2D ==
    {Tensor(<<r, c>>, Ramp(r * c), 1, "float32") :
        <<r, c>> \in (1..MaxRows) \X ((MaxFreeCols + 1)..MaxCols)}

Weights1D == {Tensor(<<n>>, Ramp(n), 1, "float32") : n \in 1..MaxCols}

QuantIdle ==
    /\ qpc = "idle"
    /\ qweight = NoTensor
    /\ qblock = 0
    /\ qout = QuantError("none")
    /\ qrec = NoTensor

LifeInit ==
    /\ attrs = [m \in Mods |-> InitialParams(m)]
    /\ _params_registry = <<>>
    /\ _quantized_registry = {}
    /\ forward_pre_hooks = [m \in Mods |-> <<>>]
    /\ forward_hooks = [m \in Mods |-> <<>>]
    /\ stack = <<>>
    /\ last = Event("none", "none", 0, 0, "none")
    /\ extern = {"A"}
    /\ detached = {}
    /\ alive = Mods

QQuantize ==
    /\ qpc = "start"
    /\ qout' = _quantize_weight_int8(qweight, qblock)
    /\ qpc' = "quantized"
    /\ UNCHANGED <<qweight, qblock, qrec, lifeVars>>

QUnquantize ==
    /\ qpc = "quantized"
    /\ qout.err = "none"
    /\ qrec' = _unquantize_weight_int8(qout.q8, qout.scale, qout.mean, qweight.shape)
    /\ qpc' = "done"
    /\ UNCHANGED <<qweight, qblock, qout, lifeVars>>

\* ------------------------------------------------------------ handle harness
\* the handles of the parameters the modules are built with
InitialHandles ==
    UNION {{Handle(m, InitialParams(m)[i].name, InitialParams(m)[i].value.shape) :
                i \in 1..Len(InitialParams(m))} : m \in Mods}

Op(fn, param, ret, info) ==
    [Event(fn, param.module, 0, 0, ret) EXCEPT !.name = param.name, !.info = info]

\* quantize_ of a weight that went through fewer than MaxRounds quantizations
HQuantize(param) ==
    LET r == quantize_(attrs, param, DefaultBlockSize)
    IN /\ Has(attrs[param.module], param.name) =>
              Get(attrs[param.module], param.name).den < (mx_val - mn_val) ^ MaxRounds
       /\ attrs' = r.attrs
       /\ last' = Op("quantize_", param, r.err, NoInfo)
       /\ UNCHANGED <<_params_registry, _quantized_registry, forward_pre_hooks,
                      forward_hooks, stack, ownVars, quantVars>>

HUnquantize(param) ==
    LET r == unquantize_(attrs, param)
    IN /\ attrs' = r.attrs
       /\ last' = Op("unquantize_", param, r.err, NoInfo)
       /\ UNCHANGED <<_params_registry, _quantized_registry, forward_pre_hooks,
                      forward_hooks, stack, ownVars, quantVars>>

HFlush(param) ==
    LET r == flush_unquantized_(attrs, param)
    IN /\ attrs' = r.attrs
       /\ last' = Op("flush_unquantized_", param, r.err, NoInfo)
       /\ UNCHANGED <<_params_registry, _quantized_registry, forward_pre_hooks,
                      forward_hooks, stack, ownVars, quantVars>>

Properties == {"dtype", "device", "mean", "scale", "q8", "size"}

\* a read of one property of the handle; dtype and device read mean
HRead(param, prop) ==
    LET r == IF prop = "scale" THEN scale(attrs, param)
             ELSE IF prop = "q8" THEN q8(attrs, param)
             ELSE mean(attrs, param)
    IN /\ last' =
            IF prop = "size" THEN Op(prop, param, "none", Info(param.size, "none", "none"))
            ELSE IF r.err /= "none" THEN Op(prop, param, r.err, NoInfo)
            ELSE IF prop = "dtype" THEN Op(prop, param, "none", Info(<<>>, r.value.dtype, "none"))
            ELSE IF prop = "device" THEN Op(prop, param, "none", Info(<<>>, "none", r.value.device))
            ELSE Op(prop, param, "none", Info(r.value.shape, r.value.dtype, r.value.device))
       /\ UNCHANGED <<attrs, _params_registry, _quantized_registry, forward_pre_hooks,
                      forward_hooks, stack, ownVars, quantVars>>

\* --------------------------------------------------------- specifications
Init == LifeInit /\ QuantIdle

Next ==
    \/ \E m \in Mods, s \in MinSizes, b \in BlockSizes : quantize_module_int8_(m, s, b)
    \/ \E m \in Mods : Call(m)
    \/ Return
    \/ BodyRaise

Spec == Init /\ [][Next]_vars

InitQ ==
    /\ LifeInit
    /\ qpc = "start"
    /\ qweight \in Weights2D \cup Ramp2D \cup Weights1D
    /\ qblock \in 1..MaxBlock
    /\ qout = QuantError("none")
    /\ qrec = NoTensor

NextQ == QQuantize \/ QUnquantize

SpecQ == InitQ /\ [][NextQ]_vars

\* the lifecycle with shape / dtype / device queries
NextG ==
    \/ Next
    \/ \E m \in Mods, n \in QueryNames : get_size_dtype_device(m, n)

SpecG == Init /\ [][NextG]_vars

\* the lifecycle with modules leaving the tree and being destroyed
NextW ==
    \/ Next
    \/ \E p \in Mods, c \in Mods : Detach(p, c)
    \/ \E m \in Mods : Release(m)

SpecW == Init /\ [][NextW]_vars

\* the handle operations called directly, on live and on destroyed modules
NextH ==
    \/ \E h \in InitialHandles : HQuantize(h)
    \/ \E h \in InitialHandles : HUnquantize(h)
    \/ \E h \in InitialHandles : HFlush(h)
    \/ \E h \in InitialHandles, prop \in Properties : HRead(h, prop)
    \/ \E c \in Mods : Detach("A", c)

SpecH == Init /\ [][NextH]_vars


\* ------------------------------------------------------------------ claims
Errors == {"AttributeError", "RuntimeError", "IndexError"}

\* every handle of the module-to-handles registry
RegisteredHandles ==
    UNION {Range(Values(_params_registry[m])) : m \in DOMAIN _params_registry}

\* every handle listed by the hooks of module m
HookHandles(m) == UNION {Range(forward_pre_hooks[m][i]) : i \in 1..Len(forward_pre_hooks[m])}

PlainAbsent(h) == ~Has(attrs[h.module], h.name)

IsQuantizeStep == last'.fn = "quantize_module_int8_" /\ stack = <<>> /\ stack' = <<>>

\* C1: whenever no module invocation is in progress, every eligible weight
\* (one with a handle in the registry) exists only as its triple: the plain
\* attribute is absent from its module.
C1_QuantizedOnlyWhenIdle ==
    stack = <<>> =>
        \A h \in RegisteredHandles : PlainAbsent(h) /\ HasTriple(attrs[h.module], h.name)

\* C2: while the body of an orchestrated root R is executing, also after it
\* has invoked another orchestrated module (the last event is not R's own),
\* the plain attribute of every handle collected for R is present.
C2_MaterializedThroughoutBody ==
    \A i \in 1..Len(stack) :
        last.module /= stack[i] =>
            \A h \in HookHandles(stack[i]) : ~PlainAbsent(h)

\* C3: after an invocation of an orchestrated root whose body exited with an
\* error, no plain attribute of a quantized weight remains on any module.
C3_FlushedAfterBodyError ==
    (last.fn = "return" /\ last.ret = "raised" /\ stack = <<>>) =>
        \A h \in RegisteredHandles : PlainAbsent(h)

\* C4: a quantize_module_int8_ call on a module already in the orchestrated
\* set changes no hook list, no registry and no module attribute, whatever
\* its min_size_mb and block_size.
C4_SecondCallIsNoOp ==
    [][(IsQuantizeStep /\ last'.module \in _quantized_registry) =>
           UNCHANGED <<attrs, _params_registry, _quantized_registry,
                       forward_pre_hooks, forward_hooks>>]_vars

C4_Witness ==
    /\ last.fn = "quantize_module_int8_"
    /\ last.ret = "None"
    /\ last.module \in _quantized_registry
    /\ Len(forward_hooks[last.module]) = 1
    /\ RegisteredHandles /= {}

\* C5: every quantize_module_int8_ call that does not raise returns the
\* module it was given.
C5_ReturnsModule ==
    (last.fn = "quantize_module_int8_" /\ last.ret \notin Errors) => last.ret = last.module

\* a weight with any part of a triple has all of it and one registered handle
OneTripleOneHandle(at, reg) ==
    \A m \in Mods : \A i \in 1..Len(at[m]) :
        LET n == at[m][i].name
            base == SubSeq(n, 1, Len(n) - 1)
        IN (Len(n) > 1 /\ n[Len(n)] \in {"q8", "scale", "mean"}) =>
               /\ HasTriple(at[m], base)
               /\ m \in DOMAIN reg
               /\ Cardinality({k \in 1..Len(reg[m]) : reg[m][k].name = base}) = 1

\* C6: a submodule is quantized at most once: a quantize_module_int8_ call
\* leaves the attributes and the handles of every submodule already in the
\* registry unchanged, adds its existing handles to the new root's hooks, and
\* each quantized weight has exactly one triple and one handle.
C6_QuantizedAtMostOnce ==
    [][IsQuantizeStep =>
          /\ \A c \in DOMAIN _params_registry :
                /\ attrs'[c] = attrs[c]
                /\ c \in DOMAIN _params_registry'
                /\ _params_registry'[c] = _params_registry[c]
                /\ (last'.ret = last'.module /\ c \in Range(modules(last'.module))) =>
                       Range(Values(_params_registry[c])) \subseteq
                           Range(forward_pre_hooks'[last'.module]
                                     [Len(forward_pre_hooks'[last'.module])])
          /\ OneTripleOneHandle(attrs', _params_registry')]_vars

\* a handle for attribute n of module m is registered or listed by a hook
HasHandle(m, n) ==
    \E h \in RegisteredHandles \cup UNION {HookHandles(r) : r \in Mods} :
        h.module = m /\ h.name = n

\* C7: on a traversal with argument min_size_mb, every own weight of a newly
\* visited submodule with size >= min_size_mb is quantized and flushed and
\* gets a handle; every one with size < min_size_mb gains no triple and no
\* handle and keeps its plain attribute unchanged, also through every later
\* invocation.
C7_SizeFilter ==
    [][/\ last'.fn \in {"__call__", "return"} =>
            \A m \in DOMAIN _params_registry : \A i \in 1..Len(attrs[m]) :
                ~HasHandle(m, attrs[m][i].name) =>
                    /\ Has(attrs'[m], attrs[m][i].name)
                    /\ Get(attrs'[m], attrs[m][i].name) = attrs[m][i].value
       /\ (IsQuantizeStep /\ last'.module \notin _quantized_registry) =>
             \A c \in Range(modules(last'.module)) \ DOMAIN _params_registry :
                 \A i \in 1..Len(attrs[c]) :
                     LET n == attrs[c][i].name
                         w == attrs[c][i].value
                     IN IF SizeBytes(w) >= last'.min_size_mb
                        THEN /\ HasTriple(attrs'[c], n)
                             /\ ~Has(attrs'[c], n)
                             /\ c \in DOMAIN _params_registry'
                             /\ Has(_params_registry'[c], n)
                        ELSE /\ ~Has(attrs'[c], Append(n, "q8"))
                             /\ ~Has(attrs'[c], Append(n, "scale"))
                             /\ ~Has(attrs'[c], Append(n, "mean"))
                             /\ c \in DOMAIN _params_registry' => ~Has(_params_registry'[c], n)
                             /\ Has(attrs'[c], n)
                             /\ Get(attrs'[c], n) = w]_vars

\* C8: the block_size argument of a quantize_module_int8_ call is the block
\* size of every triple the call stores: codes.numel() is
\* ceil(original_numel / block_size) * block_size, with one scale and one
\* mean per block.
C8_BlockSizeUsed ==
    [][(IsQuantizeStep /\ last'.ret = last'.module) =>
          \A c \in DOMAIN _params_registry' \ DOMAIN _params_registry :
              \A k \in 1..Len(_params_registry'[c]) :
                  LET h == _params_registry'[c][k].value
                      b == last'.block_size
                      blocks == CeilDiv(Numel(h.size), b)
                  IN /\ Numel(Get(attrs'[c], Append(h.name, "q8")).shape) = blocks * b
                     /\ Numel(Get(attrs'[c], Append(h.name, "scale")).shape) = blocks
                     /\ Numel(Get(attrs'[c], Append(h.name, "mean")).shape) = blocks]_vars

\* C9: for every weight and every positive block_size, _quantize_weight_int8
\* completes without error and returns codes as ceil(numel / block_size) rows
\* of block_size elements, the tail zero-filled, with one scale and one mean
\* per row.
C9_BlockLayout ==
    qpc \in {"quantized", "done"} =>
        LET numel == Numel(qweight.shape)
            blocks == CeilDiv(numel, qblock)
        IN /\ qout.err = "none"
           /\ qout.q8.shape = <<blocks, qblock>>
           /\ qout.scale.shape = <<blocks, 1>>
           /\ qout.mean.shape = <<blocks, 1>>
           /\ \A k \in (numel + 1)..(blocks * qblock) : qout.q8.data[k] = 0

Abs(x) == IF x < 0 THEN -x ELSE x

\* C10: round trip in exact arithmetic: in every row whose max differs from
\* its min, every reconstructed element is within scale_row / 2 of the
\* original, the max has code 127, the min code -128, and all codes are in
\* [-128, 127]; every constant row has scale 0, mean 0, codes 0 and
\* reconstructs to 0.
C10_RoundTrip ==
    qpc = "done" =>
        \A i \in 1..qweight.shape[1] :
            LET c == qweight.shape[2]
                cols == 1..c
                orig(j) == qweight.data[(i - 1) * c + j]
                code(j) == qout.q8.data[(i - 1) * c + j]
                rec(j) == qrec.data[(i - 1) * c + j]
                mx == SetMax({orig(j) : j \in cols})
                mn == SetMin({orig(j) : j \in cols})
            IN IF mx /= mn
               THEN /\ qrec.den = qout.scale.den
                    /\ \A j \in cols :
                          /\ 2 * Abs(rec(j) - qrec.den * orig(j)) <= qout.scale.data[i]
                          /\ code(j) >= -128 /\ code(j) <= 127
                          /\ orig(j) = mx => code(j) = 127
                          /\ orig(j) = mn => code(j) = -128
               ELSE /\ qout.scale.data[i] = 0
                    /\ qout.mean.data[i] = 0
                    /\ \A j \in cols : code(j) = 0 /\ rec(j) = 0

C10_Witness ==
    /\ qpc = "done"
    /\ qweight.shape = <<2, 3>>
    /\ qweight.data = <<0, 1, 2, 2, 2, 2>>
    /\ qout.q8.data = <<-128, 0, 127, 0, 0, 0>>
    /\ qrec.data = <<0, 256, 510, 0, 0, 0>>


\* C11: for every original element of every row, constant rows included, the
\* reconstructed value is within scale / 2 of the original.
C11_OutputWithinHalfStep ==
    qpc = "done" =>
        \A i \in 1..qweight.shape[1] : \A j \in 1..qweight.shape[2] :
            LET k == (i - 1) * qweight.shape[2] + j
            IN 2 * Abs(qrec.data[k] - qrec.den * qweight.data[k]) <= qout.scale.data[i]

\* the weight the handle of attribute n of module m was created for
OriginalOf(m, n) ==
    IF Has(InitialParams(m), n) THEN Get(InitialParams(m), n)
    ELSE _quantize_weight_int8(Get(InitialParams(m), <<"w">>), DefaultBlockSize).q8

\* C12: get_size_dtype_device(module, name) of a quantized weight returns the
\* original weight's (shape, dtype, device), flushed or materialized; with the
\* attribute absent and no handle for the name it fails with AttributeError.
C12_SizeDtypeDevice ==
    last.fn = "get_size_dtype_device" =>
        LET m == last.module
            n == last.name
        IN IF m \in DOMAIN _params_registry /\ Has(_params_registry[m], n)
           THEN /\ last.ret = "ok"
                /\ last.info = Info(OriginalOf(m, n).shape, OriginalOf(m, n).dtype,
                                    OriginalOf(m, n).device)
           ELSE ~Has(attrs[m], n) => last.ret = "AttributeError"

\* C13: under any bracketed invocation sequence, nested invocations included,
\* no post-hook fails with a missing-attribute error.
C13_NestingHarmless ==
    last.fn = "return" => last.ret /= "AttributeError"

\* the value dequantize(q8, scale, mean, size) of the triple of n in d
Dequantized(d, n, size) ==
    LET c == Get(d, Append(n, "q8"))
        sc == Get(d, Append(n, "scale"))
        mn == Get(d, Append(n, "mean"))
    IN [shape |-> size,
        data |-> [k \in 1..Numel(size) |->
                     mn.data[((k - 1) \div c.shape[2]) + 1]
                     + c.data[k] * sc.data[((k - 1) \div c.shape[2]) + 1]],
        den |-> mn.den, dtype |-> mn.dtype, device |-> mn.device]

Size(m, n) == Get(InitialParams(m), n).shape

\* C14: unquantize_ leaves a module whose plain attribute is present
\* untouched; with the attribute absent it installs the value dequantized
\* from the triple with the remembered shape and leaves the triple unchanged.
C14_UnquantizeIdempotent ==
    [][(last'.fn = "unquantize_" /\ last'.module \in alive) =>
          LET m == last'.module
              n == last'.name
          IN IF Has(attrs[m], n) THEN attrs' = attrs /\ last'.ret = "none"
             ELSE HasTriple(attrs[m], n) =>
                     /\ last'.ret = "none"
                     /\ attrs' = [attrs EXCEPT ![m] =
                                    Append(@, [name |-> n,
                                               value |-> Dequantized(attrs[m], n, Size(m, n))])]]_vars

C14_Witness ==
    /\ last.fn = "unquantize_"
    /\ last.ret = "none"
    /\ last.module = "A"
    /\ HasTriple(attrs["A"], <<"w">>)
    /\ Get(attrs["A"], <<"w">>) = Get(InitialParams("A"), <<"w">>)
    /\ Get(attrs["A"], <<"w">>) /= Dequantized(attrs["A"], <<"w">>, <<2, 3>>)

\* C15: flush_unquantized_ removes the plain attribute only; with the plain
\* attribute absent it fails with AttributeError and changes nothing.
C15_FlushRemovesPlainOnly ==
    [][(last'.fn = "flush_unquantized_" /\ last'.module \in alive) =>
          LET m == last'.module
              n == last'.name
          IN /\ UNCHANGED <<_params_registry, _quantized_registry>>
             /\ IF Has(attrs[m], n)
                THEN /\ last'.ret = "none"
                     /\ attrs' = [attrs EXCEPT ![m] = SelectSeq(@, LAMBDA e : e.name /= n)]
                ELSE /\ last'.ret = "AttributeError"
                     /\ attrs' = attrs]_vars

C15_Witness ==
    /\ last.fn = "flush_unquantized_"
    /\ last.ret = "AttributeError"
    /\ last.module \in alive
    /\ HasTriple(attrs[last.module], last.name)

HandleOps == {"quantize_", "unquantize_", "flush_unquantized_",
              "dtype", "device", "mean", "scale", "q8"}

C17_HooksOnRootOnly ==
    [][/\ (IsQuantizeStep /\ last'.ret = last'.module) =>
            \A m \in Mods :
                /\ Len(forward_pre_hooks'[m]) =
                       Len(forward_pre_hooks[m]) + (IF m = last'.module THEN 1 ELSE 0)
                /\ Len(forward_hooks'[m]) =
                       Len(forward_hooks[m]) + (IF m = last'.module THEN 1 ELSE 0)
       /\ (last'.fn \in {"__call__", "return"} /\ forward_pre_hooks[last'.module] = <<>>
             /\ forward_hooks[last'.module] = <<>>) => attrs' = attrs
       /\ (last'.fn = "__call__" /\ Len(stack') > Len(stack)) =>
            \A h \in HookHandles(last'.module) : Has(attrs'[h.module], h.name)
       /\ (last'.fn = "return" /\ Len(stack') < Len(stack)) =>
            \A h \in HookHandles(last'.module) : ~Has(attrs'[h.module], h.name)]_vars

\* a module drops out of both registries when it is destroyed
Pruned(m) == m \notin DOMAIN _params_registry /\ m \notin _quantized_registry

\* C18: no registry, handle or hook closure owns a module: a module that no
\* caller reference and no parent reaches is destroyed, and a destroyed
\* module is in neither registry.
C18_WeakRegistries ==
    /\ alive = Owned
    /\ \A m \in Mods \ alive : Pruned(m)

C18_Witness ==
    /\ "B" \notin alive
    /\ "A" \in alive
    /\ "A" \in _quantized_registry
    /\ \E h \in HookHandles("A") : h.module = "B"
    /\ "C" \in DOMAIN _params_registry

\* C19: every weight whose plain attribute has been flushed has a handle
\* listed by the pre-hook of some module with installed hooks.
C19_FlushedWeightsAreHooked ==
    \A m \in Mods : \A i \in 1..Len(attrs[m]) :
        LET e == attrs[m][i].name
            n == SubSeq(e, 1, Len(e) - 1)
        IN (Len(e) > 1 /\ e[Len(e)] = "mean" /\ ~Has(attrs[m], n)) =>
               \E r \in Mods : \E h \in HookHandles(r) : h.module = m /\ h.name = n

====
